---- MODULE Spec2Model ----
(***************************************************************************)
(* Food Delivery API (src/main.py, src/schemas.py): restaurants, menu      *)
(* items and orders kept in three collections of a document store.         *)
(*                                                                         *)
(* Strings that are identifiers are sequences of one-character strings, so *)
(* that ObjectId parsing (24 hex digits -> 12 bytes) and str() of an       *)
(* ObjectId (12 bytes -> 24 lower-case hex digits) are computed.           *)
(* Money is counted in thousandths (8.99 is 8990, 3.333 is 3333); a total  *)
(* rounded to 2 decimals is a multiple of 10.                              *)
(***************************************************************************)
EXTENDS Integers, Sequences, FiniteSets, TLC

VARIABLES restaurant, menuitem, order, resp,
          seedPc, seedIdx, seedR1, seedR2

store == <<restaurant, menuitem, order>>
seedvars == <<seedPc, seedIdx, seedR1, seedR2>>
vars == <<restaurant, menuitem, order, resp, seedPc, seedIdx, seedR1, seedR2>>

(* ------------------------------ bounds -------------------------------- *)
MaxRestaurants == 1
MaxMenuItems == 1
MaxOrders == 1
NumSeedRequests == 2
MaxBulkMenuItems == 201

(* -------------------------- ObjectId strings -------------------------- *)
OidHexLen == 24
OidBytes == 12
MenuListLimit == 200

HexLower == <<"0","1","2","3","4","5","6","7","8","9","a","b","c","d","e","f">>
HexUpper == <<"0","1","2","3","4","5","6","7","8","9","A","B","C","D","E","F">>

IsHexChar(c) == \E v \in 1..16 : c = HexLower[v] \/ c = HexUpper[v]

HexVal(c) ==
    IF IsHexChar(c)
    THEN (CHOOSE v \in 1..16 : c = HexLower[v] \/ c = HexUpper[v]) - 1
    ELSE 0

\* bson.ObjectId(id_str) accepts exactly the strings of 24 hex digits.
ObjectIdValid(s) == Len(s) = OidHexLen /\ \A i \in 1..Len(s) : IsHexChar(s[i])

\* The 12 bytes of ObjectId(s).
ObjectId(s) ==
    [i \in 1..OidBytes |->
        IF 2 * i <= Len(s) THEN 16 * HexVal(s[2 * i - 1]) + HexVal(s[2 * i]) ELSE 0]

\* str(ObjectId): 24 lower-case hex digits.
Str(o) ==
    [i \in 1..OidHexLen |->
        LET b == o[(i + 1) \div 2]
        IN IF i % 2 = 1 THEN HexLower[(b \div 16) + 1] ELSE HexLower[(b % 16) + 1]]

\* The store assigns every document an identifier no other document has:
\* here the n-th document of a collection gets the collection's tag byte
\* and n in the last two bytes.
CollectionTag(collection) ==
    CASE collection = "restaurant" -> 161
      [] collection = "menuitem" -> 162
      [] collection = "order" -> 163

NewObjectId(collection, n) ==
    [i \in 1..OidBytes |->
        IF i = OidBytes THEN n % 256
        ELSE IF i = OidBytes - 1 THEN (n \div 256) % 256
        ELSE IF i = 1 THEN CollectionTag(collection)
        ELSE 171]

ToUpper(s) ==
    [i \in 1..Len(s) |->
        IF \E v \in 1..16 : s[i] = HexLower[v]
        THEN HexUpper[CHOOSE v \in 1..16 : s[i] = HexLower[v]]
        ELSE s[i]]

OidRaisesLengthOnly(id_str) == Len(id_str) # OidHexLen

\* oid(id_str) raises HTTPException(400) iff ObjectId(id_str) raises.
OidRaises(id_str) == ~ObjectIdValid(id_str)

oid(id_str) == ObjectId(id_str)

(* ------------------------------ the store ----------------------------- *)
Range(f) == {f[i] : i \in DOMAIN f}

\* create_document(collection, data): the documents of the collection with
\* the record appended under a fresh _id; inserted_id is that _id as a string.
create_document(collection, docs, data) ==
    Append(docs, [_id |-> NewObjectId(collection, Len(docs) + 1)] @@ data)

inserted_id(collection, docs) == Str(NewObjectId(collection, Len(docs) + 1))

\* db["restaurant"].find_one({"_id": o}): the matching documents (none: None).
find_one_restaurant(o) == {r \in Range(restaurant) : r._id = o}

\* get_documents(collection, filter, limit): the first `limit` matches, in
\* the order they are stored, each with _id renamed to id.
TakeLimit(s, limit) == SubSeq(s, 1, IF Len(s) < limit THEN Len(s) ELSE limit)

(* ------------------------------ responses ----------------------------- *)
NoId == << >>

\* What a request returns: the HTTP status and the fields of the body
\* (those a route does not return keep their defaults).
Response(op, status, id, total, message, docs, restaurants, items) ==
    [op |-> op, status |-> status, id |-> id, total |-> total,
     message |-> message, docs |-> docs, restaurants |-> restaurants, items |-> items]

Fail(op, status, message) == Response(op, status, NoId, 0, message, << >>, 0, 0)

(* --------------------------- schemas.py -------------------------------- *)
\* Restaurant: rating (in tenths) 0..5, delivery_time_mins 5..120.
ValidRestaurant(p) ==
    /\ p.rating >= 0 /\ p.rating <= 50
    /\ p.delivery_time_mins >= 5 /\ p.delivery_time_mins <= 120

\* MenuItem: price >= 0.
ValidMenuItem(p) == p.price >= 0

\* OrderItem: quantity >= 1; price is any float.
ValidOrderItem(it) == it.quantity >= 1

\* CreateOrder: items is a list of OrderItem, of any length.
ValidCreateOrder(p) == \A i \in 1..Len(p.items) : ValidOrderItem(p.items[i])

(* ----------------------- what the clients send ------------------------- *)
\* Restaurant identifiers a client may send: those of the first two
\* restaurants (before the store assigns them they resolve to nothing), the
\* first in upper case, a string one digit short and a string of the right
\* length with a non-hex character.
IdInputs ==
    { Str(NewObjectId("restaurant", 1)), Str(NewObjectId("restaurant", 2)),
      ToUpper(Str(NewObjectId("restaurant", 1))),
      SubSeq(Str(NewObjectId("restaurant", 1)), 1, OidHexLen - 1),
      [Str(NewObjectId("restaurant", 1)) EXCEPT ![2] = "z"] }

RestaurantInputs ==
    [name : {"Burger Hub"}, rating : {43, 51}, delivery_time_mins : {25}]

MenuItemInputs ==
    [restaurant_id : IdInputs, name : {"Classic Burger"}, price : {8990, -1000}]

\* Order lines a client may send. The client's name and prices are never
\* those of a stored menu item.
Line(n, price, quantity) ==
    [item_id |-> Str(NewObjectId("menuitem", n)), name |-> "Mystery Item",
     price |-> price, quantity |-> quantity]

CartInputs ==
    { << >>,
      << Line(1, 10, 2) >>,
      << Line(2, 3333, 3) >>,
      << Line(2, -5000, 1) >>,
      << Line(1, 3333, 2), Line(2, 3333, 2) >>,
      << Line(1, 10, 0) >> }

OrderInputs ==
    [restaurant_id : IdInputs, customer_name : {"Ann"}, customer_phone : {"555"},
     customer_address : {"1 Main St"}, items : CartInputs]

(* ------------------------------ main.py -------------------------------- *)
\* POST /restaurants
create_restaurant(payload) ==
    IF ~ValidRestaurant(payload)
    THEN /\ resp' = Fail("create_restaurant", 422, "validation")
         /\ UNCHANGED store
    ELSE /\ restaurant' = create_document("restaurant", restaurant,
                [name |-> payload.name, rating |-> payload.rating,
                 delivery_time_mins |-> payload.delivery_time_mins])
         /\ resp' = Response("create_restaurant", 200, inserted_id("restaurant", restaurant),
                              0, "", << >>, 0, 0)
         /\ UNCHANGED <<menuitem, order>>

RestaurantMissingIgnored(rest) == FALSE

\* `if not rest`: find_one found nothing.
RestaurantMissing(rest) == rest = {}

\* POST /menu
create_menu_item(payload) ==
    IF ~ValidMenuItem(payload)
    THEN /\ resp' = Fail("create_menu_item", 422, "validation")
         /\ UNCHANGED store
    ELSE IF OidRaises(payload.restaurant_id)
    THEN /\ resp' = Fail("create_menu_item", 400, "Invalid id")
         /\ UNCHANGED store
    ELSE IF RestaurantMissing(find_one_restaurant(oid(payload.restaurant_id)))
    THEN /\ resp' = Fail("create_menu_item", 404, "Restaurant not found")
         /\ UNCHANGED store
    ELSE /\ menuitem' = create_document("menuitem", menuitem,
                [restaurant_id |-> payload.restaurant_id, name |-> payload.name,
                 price |-> payload.price])
         /\ resp' = Response("create_menu_item", 200, inserted_id("menuitem", menuitem),
                              0, "", << >>, 0, 0)
         /\ UNCHANGED <<restaurant, order>>

ListedDoc(d) ==
    [id |-> Str(d._id), restaurant_id |-> d.restaurant_id, name |-> d.name, price |-> d.price]

\* get_documents("menuitem", {"restaurant_id": restaurant_id}, limit)
get_menu_documents(restaurant_id, limit) ==
    TakeLimit(SelectSeq(menuitem, LAMBDA d : d.restaurant_id = restaurant_id), limit)

\* GET /menu/{restaurant_id}
list_menu(restaurant_id) ==
    LET docs == get_menu_documents(restaurant_id, MenuListLimit)
    IN /\ resp' = Response("list_menu", 200, NoId, 0, "",
                            [i \in 1..Len(docs) |-> ListedDoc(docs[i])], 0, 0)
       /\ UNCHANGED store

menu_items_unfiltered(restaurant_id) == Range(menuitem)

\* menu_items = {str(m["_id"]): m for m in db["menuitem"].find({"restaurant_id": ...})}
\* as the set of the documents loaded; the key of m is Str(m._id).
menu_items(restaurant_id) == {m \in Range(menuitem) : m.restaurant_id = restaurant_id}

InMenu(menu, item_id) == \E m \in menu : Str(m._id) = item_id

PricedLineClientWins(menu, it) ==
    [item_id |-> it.item_id, name |-> it.name, price |-> it.price, quantity |-> it.quantity]

\* One turn of the loop over payload.items: the line appended to order_items.
PricedLine(menu, it) ==
    IF InMenu(menu, it.item_id)
    THEN LET m == CHOOSE x \in menu : Str(x._id) = it.item_id
         IN [item_id |-> it.item_id, name |-> m.name, price |-> m.price, quantity |-> it.quantity]
    ELSE [item_id |-> it.item_id, name |-> it.name, price |-> it.price, quantity |-> it.quantity]

order_items(menu, items) == [i \in 1..Len(items) |-> PricedLine(menu, items[i])]

\* round(x, 2) of a value in thousandths: the nearest multiple of 10. A
\* value halfway between two (its last digit is 5) is not a binary float, and
\* the float nearest to it rounds to either neighbour.
Round2(t) ==
    LET lo == t - (t % 10)
    IN IF t % 10 < 5 THEN {lo}
       ELSE IF t % 10 > 5 THEN {lo + 10}
       ELSE {lo, lo + 10}

RECURSIVE RunningTotalUnitRounded(_)
RunningTotalUnitRounded(lines) ==
    IF lines = << >> THEN 0
    ELSE RunningTotalUnitRounded(SubSeq(lines, 1, Len(lines) - 1))
         + (CHOOSE r \in Round2(lines[Len(lines)].price) : TRUE) * lines[Len(lines)].quantity

\* total += price * it.quantity, over the lines in order.
RECURSIVE RunningTotal(_)
RunningTotal(lines) ==
    IF lines = << >> THEN 0
    ELSE RunningTotal(SubSeq(lines, 1, Len(lines) - 1))
         + lines[Len(lines)].price * lines[Len(lines)].quantity

\* POST /orders
place_order(payload) ==
    LET menu  == menu_items(payload.restaurant_id)
        lines == order_items(menu, payload.items)
        total == RunningTotal(lines)
    IN IF ~ValidCreateOrder(payload)
       THEN /\ resp' = Fail("place_order", 422, "validation")
            /\ UNCHANGED store
       ELSE IF OidRaises(payload.restaurant_id)
       THEN /\ resp' = Fail("place_order", 400, "Invalid id")
            /\ UNCHANGED store
       ELSE IF find_one_restaurant(oid(payload.restaurant_id)) = {}
       THEN \* None.get("name", "Restaurant") raises AttributeError
            /\ resp' = Fail("place_order", 500, "Internal Server Error")
            /\ UNCHANGED store
       ELSE \E rounded \in Round2(total) :
            LET rest == CHOOSE r \in find_one_restaurant(oid(payload.restaurant_id)) : TRUE
                order_doc == [restaurant_id |-> payload.restaurant_id,
                              restaurant_name |-> rest.name,
                              customer_name |-> payload.customer_name,
                              customer_phone |-> payload.customer_phone,
                              customer_address |-> payload.customer_address,
                              items |-> lines,
                              total |-> rounded,
                              status |-> "placed"]
            IN /\ order' = create_document("order", order, order_doc)
               /\ resp' = Response("place_order", 200, inserted_id("order", order),
                                    order_doc.total, "placed", << >>, 0, 0)
               /\ UNCHANGED <<restaurant, menuitem>>

\* The demo data of seed_demo: rest1, rest2 and the six items (`rest` says
\* which of r1_id, r2_id an item carries).
SeedRestaurants ==
    << [name |-> "Burger Hub", rating |-> 43, delivery_time_mins |-> 25],
       [name |-> "Curry Palace", rating |-> 46, delivery_time_mins |-> 35] >>

SeedItems ==
    << [rest |-> 1, name |-> "Classic Burger", price |-> 8990],
       [rest |-> 1, name |-> "Veggie Burger", price |-> 7490],
       [rest |-> 1, name |-> "Fries", price |-> 3490],
       [rest |-> 2, name |-> "Butter Chicken", price |-> 12990],
       [rest |-> 2, name |-> "Paneer Tikka", price |-> 10990],
       [rest |-> 2, name |-> "Garlic Naan", price |-> 2490] >>

SeedMenuItem(i, r1_id, r2_id) ==
    [restaurant_id |-> IF SeedItems[i].rest = 1 THEN r1_id ELSE r2_id,
     name |-> SeedItems[i].name, price |-> SeedItems[i].price]

\* for it in items: create_document("menuitem", it), the first k items.
RECURSIVE InsertSeedItems(_, _, _, _)
InsertSeedItems(docs, k, r1_id, r2_id) ==
    IF k = 0 THEN docs
    ELSE create_document("menuitem", InsertSeedItems(docs, k - 1, r1_id, r2_id),
                         SeedMenuItem(k, r1_id, r2_id))

AlreadySeededChecksMenu == Len(menuitem) > 0

\* db["restaurant"].count_documents({}) > 0
AlreadySeeded == Len(restaurant) > 0

\* POST /seed, one request run from its first line to its return.
seed_demo ==
    IF AlreadySeeded
    THEN /\ resp' = Response("seed", 200, NoId, 0, "Data already seeded", << >>, 0, 0)
         /\ UNCHANGED store
    ELSE LET r1_id == inserted_id("restaurant", restaurant)
             rs1 == create_document("restaurant", restaurant, SeedRestaurants[1])
             r2_id == inserted_id("restaurant", rs1)
             rs2 == create_document("restaurant", rs1, SeedRestaurants[2])
         IN /\ restaurant' = rs2
            /\ menuitem' = InsertSeedItems(menuitem, Len(SeedItems), r1_id, r2_id)
            /\ resp' = Response("seed", 200, NoId, 0, "", << >>, 2, Len(SeedItems))
            /\ UNCHANGED order

(* --------------------------- the requests ------------------------------ *)
NoResponse == Response("", 0, NoId, 0, "", << >>, 0, 0)

SeedRequests == 1..NumSeedRequests

Init ==
    /\ restaurant = << >>
    /\ menuitem = << >>
    /\ order = << >>
    /\ resp = NoResponse
    /\ seedPc = [q \in SeedRequests |-> "count"]
    /\ seedIdx = [q \in SeedRequests |-> 1]
    /\ seedR1 = [q \in SeedRequests |-> NoId]
    /\ seedR2 = [q \in SeedRequests |-> NoId]

CreateRestaurant ==
    \E p \in RestaurantInputs :
        /\ Len(restaurant) < MaxRestaurants
        /\ create_restaurant(p)
        /\ UNCHANGED seedvars

CreateMenuItem ==
    \E p \in MenuItemInputs :
        /\ Len(menuitem) < MaxMenuItems
        /\ create_menu_item(p)
        /\ UNCHANGED seedvars

ListMenu ==
    \E r \in IdInputs :
        /\ list_menu(r)
        /\ UNCHANGED seedvars

PlaceOrder ==
    \E p \in OrderInputs :
        /\ Len(order) < MaxOrders
        /\ place_order(p)
        /\ UNCHANGED seedvars

SeedDemo ==
    /\ seed_demo
    /\ UNCHANGED seedvars

Next == CreateRestaurant \/ CreateMenuItem \/ ListMenu \/ PlaceOrder \/ SeedDemo

Spec == Init /\ [][Next]_vars

(* ------------- /seed, one store call at a time (concurrent) ------------ *)
\* seedPc[q] is where request q stands: "count" (before count_documents),
\* "rest1", "rest2" (before each create_document("restaurant", ...)),
\* "items" (before create_document("menuitem", items[seedIdx[q]])),
\* "seeded" and "already" (returned).
SeedCount(q) ==
    /\ seedPc[q] = "count"
    /\ seedPc' = [seedPc EXCEPT ![q] = IF AlreadySeeded THEN "already" ELSE "rest1"]
    /\ UNCHANGED <<store, resp, seedIdx, seedR1, seedR2>>

SeedRest1(q) ==
    /\ seedPc[q] = "rest1"
    /\ restaurant' = create_document("restaurant", restaurant, SeedRestaurants[1])
    /\ seedR1' = [seedR1 EXCEPT ![q] = inserted_id("restaurant", restaurant)]
    /\ seedPc' = [seedPc EXCEPT ![q] = "rest2"]
    /\ UNCHANGED <<menuitem, order, resp, seedIdx, seedR2>>

SeedRest2(q) ==
    /\ seedPc[q] = "rest2"
    /\ restaurant' = create_document("restaurant", restaurant, SeedRestaurants[2])
    /\ seedR2' = [seedR2 EXCEPT ![q] = inserted_id("restaurant", restaurant)]
    /\ seedPc' = [seedPc EXCEPT ![q] = "items"]
    /\ UNCHANGED <<menuitem, order, resp, seedIdx, seedR1>>

SeedItem(q) ==
    /\ seedPc[q] = "items"
    /\ menuitem' = create_document("menuitem", menuitem,
                                    SeedMenuItem(seedIdx[q], seedR1[q], seedR2[q]))
    /\ seedIdx' = [seedIdx EXCEPT ![q] = seedIdx[q] + 1]
    /\ seedPc' = [seedPc EXCEPT ![q] = IF seedIdx[q] = Len(SeedItems) THEN "seeded" ELSE "items"]
    /\ UNCHANGED <<restaurant, order, resp, seedR1, seedR2>>

SeedStep == \E q \in SeedRequests : SeedCount(q) \/ SeedRest1(q) \/ SeedRest2(q) \/ SeedItem(q)

SpecSeed == Init /\ [][SeedStep]_vars

(* --------------- one restaurant with a long menu ----------------------- *)
BulkRestaurantId == Str(NewObjectId("restaurant", 1))

BulkMenuItemInputs ==
    [restaurant_id : {BulkRestaurantId, Str(NewObjectId("restaurant", 2))},
     name : {"Classic Burger"}, price : {8990}]

\* The store after one POST /restaurants.
InitMenu ==
    /\ restaurant = create_document("restaurant", << >>,
                        [name |-> "Burger Hub", rating |-> 43, delivery_time_mins |-> 25])
    /\ menuitem = << >>
    /\ order = << >>
    /\ resp = NoResponse
    /\ seedPc = [q \in SeedRequests |-> "count"]
    /\ seedIdx = [q \in SeedRequests |-> 1]
    /\ seedR1 = [q \in SeedRequests |-> NoId]
    /\ seedR2 = [q \in SeedRequests |-> NoId]

BulkCreateMenuItem ==
    \E p \in BulkMenuItemInputs :
        /\ Len(menuitem) < MaxBulkMenuItems
        /\ create_menu_item(p)
        /\ UNCHANGED seedvars

BulkListInputs == {BulkRestaurantId, Str(NewObjectId("restaurant", 2))}

BulkListMenu ==
    \E r \in BulkListInputs :
        /\ list_menu(r)
        /\ UNCHANGED seedvars

NextMenu == BulkCreateMenuItem \/ BulkListMenu

SpecMenu == InitMenu /\ [][NextMenu]_vars

(* ======================= the claims ==================================== *)
\* The order a step has just persisted.
NewOrder == order'[Len(order')]

\* A step that is a successful POST /orders.
OrderPlaced == resp'.op = "place_order" /\ resp'.status = 200

\* The menu items stored under restaurant_id r with identifier string id.
StoredUnder(r, id) == {m \in Range(menuitem) : m.restaurant_id = r /\ Str(m._id) = id}

\* The sum a cart should come to: the stored price of a line found in the
\* restaurant's menu, the client's price of any other line, times quantity.
RECURSIVE ExpectedSum(_, _)
ExpectedSum(r, items) ==
    IF items = << >> THEN 0
    ELSE LET it == Head(items)
             price == IF StoredUnder(r, it.item_id) # {}
                      THEN (CHOOSE m \in StoredUnder(r, it.item_id) : TRUE).price
                      ELSE it.price
         IN price * it.quantity + ExpectedSum(r, Tail(items))

RECURSIVE PersistedSum(_)
PersistedSum(lines) ==
    IF lines = << >> THEN 0
    ELSE Head(lines).price * Head(lines).quantity + PersistedSum(Tail(lines))

\* t is x rounded to 2 decimals (a multiple of 10 thousandths nearest to x).
IsRounded2(t, x) == t % 10 = 0 /\ t - x <= 5 /\ x - t <= 5

\* The requests a persisted order o can come from: those for o's
\* restaurant_id with as many lines as o.
RequestsOf(o) ==
    {p \in OrderInputs : p.restaurant_id = o.restaurant_id /\ Len(p.items) = Len(o.items)}

\* The requests whose restaurant_id is no store identifier.
MalformedIdOrders == {p \in OrderInputs : ~ObjectIdValid(p.restaurant_id)}

RestaurantResolves(r) ==
    ObjectIdValid(r) /\ \E d \in Range(restaurant) : d._id = ObjectId(r)

\* C1: place_order with a well-formed restaurant_id that resolves to no
\* restaurant persists exactly one new order, whose restaurant_name is
\* "Restaurant", and returns its id, its total and the status "placed".
C1_UnknownRestaurantFallsBack ==
    [][resp'.op = "place_order" =>
        \A p \in OrderInputs :
            ( /\ ValidCreateOrder(p)
              /\ ObjectIdValid(p.restaurant_id)
              /\ ~RestaurantResolves(p.restaurant_id)
              /\ place_order(p) )
            => /\ Len(order') = Len(order) + 1
               /\ SubSeq(order', 1, Len(order)) = order
               /\ NewOrder.restaurant_name = "Restaurant"
               /\ resp'.status = 200
               /\ resp'.id = Str(NewOrder._id)
               /\ resp'.total = NewOrder.total
               /\ resp'.message = "placed"]_vars

C3_UnmatchedLineKeepsClientData ==
    [][OrderPlaced =>
        \A p \in RequestsOf(NewOrder) :
            place_order(p) =>
                /\ Len(order') = Len(order) + 1
                /\ Len(NewOrder.items) = Len(p.items)
                /\ \A i \in 1..Len(p.items) :
                     StoredUnder(p.restaurant_id, p.items[i].item_id) = {} =>
                        /\ NewOrder.items[i].item_id = p.items[i].item_id
                        /\ NewOrder.items[i].name = p.items[i].name
                        /\ NewOrder.items[i].price = p.items[i].price
                        /\ NewOrder.items[i].quantity = p.items[i].quantity
                /\ IsRounded2(NewOrder.total, PersistedSum(NewOrder.items))]_vars

\* An order at one restaurant with a line naming an item of another
\* restaurant: the line holds the client's "Mystery Item" at 3.333.
C3_Witness ==
    /\ resp.op = "place_order" /\ resp.status = 200
    /\ \E o \in Range(order) :
         /\ Str(o._id) = resp.id
         /\ Len(o.items) = 1
         /\ \E m \in Range(menuitem) :
              Str(m._id) = o.items[1].item_id /\ m.restaurant_id # o.restaurant_id
         /\ o.items[1].name = "Mystery Item"
         /\ o.items[1].price = 3333
         /\ o.total = 10000

\* C4: place_order with a restaurant_id that is not a valid store identifier
\* leaves the three collections as they were, and answers 400 "Invalid id"
\* whatever (schema-valid) items were sent.
C4_MalformedIdRejected ==
    [][resp'.op = "place_order" =>
        \A p \in MalformedIdOrders :
            place_order(p) =>
                /\ restaurant' = restaurant
                /\ menuitem' = menuitem
                /\ order' = order
                /\ ValidCreateOrder(p) =>
                     (resp'.status = 400 /\ resp'.message = "Invalid id")]_vars

\* A 400 answer to POST /orders, on a store that holds a restaurant and a
\* menu item.
C4_Witness ==
    /\ resp.op = "place_order" /\ resp.status = 400
    /\ restaurant # << >> /\ menuitem # << >>

\* C5: a /seed call made while the restaurant collection is not empty writes
\* nothing and reports "Data already seeded"; one made on an empty store
\* leaves 2 restaurants and 6 menu items (so does the call after it).
C5_SeedIdempotent ==
    [][(resp'.op = "seed" /\ seed_demo) =>
        /\ restaurant # << >> =>
             /\ restaurant' = restaurant /\ menuitem' = menuitem /\ order' = order
             /\ resp'.message = "Data already seeded"
        /\ (restaurant = << >> /\ menuitem = << >>) =>
             /\ Len(restaurant') = 2 /\ Len(menuitem') = 6 /\ order' = order
             /\ resp'.restaurants = 2 /\ resp'.items = 6
        /\ (resp.op = "seed" /\ resp.restaurants = 2) =>
             (Len(restaurant') = 2 /\ Len(menuitem') = 6)]_vars

\* The second of two /seed calls has answered: 2 restaurants, 6 menu items.
C5_Witness ==
    /\ resp.op = "seed" /\ resp.message = "Data already seeded"
    /\ Len(restaurant) = 2 /\ Len(menuitem) = 6
    /\ restaurant[2].name = "Curry Palace"

\* What create_menu_item does, as C6 states it.
C6_CreateMenuItemStep ==
    resp'.op = "create_menu_item" =>
        \A p \in BulkMenuItemInputs :
            create_menu_item(p) =>
                IF RestaurantResolves(p.restaurant_id)
                THEN /\ resp'.status = 200
                     /\ Len(menuitem') = Len(menuitem) + 1
                     /\ SubSeq(menuitem', 1, Len(menuitem)) = menuitem
                     /\ menuitem'[Len(menuitem')].restaurant_id = p.restaurant_id
                     /\ menuitem'[Len(menuitem')].name = p.name
                     /\ menuitem'[Len(menuitem')].price = p.price
                     /\ resp'.id = Str(menuitem'[Len(menuitem')]._id)
                ELSE /\ resp'.status = 404
                     /\ menuitem' = menuitem

\* The menu items stored under restaurant_id r.
ItemsUnder(r) == {m \in Range(menuitem) : m.restaurant_id = r}

\* The identifiers of the documents a step's answer lists.
ReturnedIds == {resp'.docs[i].id : i \in 1..Len(resp'.docs)}

AllReturned(r) == {Str(m._id) : m \in ItemsUnder(r)} \subseteq ReturnedIds

\* C6 as stated: create_menu_item with a well-formed restaurant_id that
\* resolves to no restaurant answers 404 and persists nothing; with the id
\* of a restaurant it persists the item and returns its id, and every later
\* list_menu for that restaurant_id returns the item.
C6_CreatedItemAlwaysListed ==
    [][ /\ C6_CreateMenuItemStep
        /\ resp'.op = "list_menu" =>
             \A r \in BulkListInputs :
                list_menu(r) => AllReturned(r) ]_vars

\* C6 amended: ... and a later list_menu for that restaurant_id returns the
\* item whenever at most 200 menu items are stored under that restaurant_id.
C6_CreatedItemListedUpToLimit ==
    [][ /\ C6_CreateMenuItemStep
        /\ resp'.op = "list_menu" =>
             \A r \in BulkListInputs :
                list_menu(r) =>
                    /\ Cardinality(ItemsUnder(r)) <= 200 => AllReturned(r)
                    /\ Len(resp'.docs) <= 200 ]_vars

\* list_menu has returned all 200 items of a restaurant, the last created
\* among them.
C6_Witness ==
    /\ resp.op = "list_menu" /\ Len(resp.docs) = 200 /\ Len(menuitem) = 200
    /\ resp.docs[200].id = Str(menuitem[200]._id)

\* C7: the total persisted and returned is the sum over the persisted lines
\* of price times quantity, rounded to 2 decimals once; the persisted line
\* prices are the stored or submitted prices, not rounded.
C7_TotalRoundedOnce ==
    [][OrderPlaced =>
        /\ Len(order') = Len(order) + 1
        /\ IsRounded2(NewOrder.total, PersistedSum(NewOrder.items))
        /\ resp'.total = NewOrder.total
        /\ \A p \in RequestsOf(NewOrder) :
             place_order(p) =>
                \A i \in 1..Len(p.items) :
                    \/ NewOrder.items[i].price = p.items[i].price
                    \/ \E m \in Range(menuitem) : NewOrder.items[i].price = m.price]_vars

\* 3 x 3.333: the line persisted at 3.333, the total reported as 10.00.
C7_Witness ==
    /\ resp.op = "place_order" /\ resp.status = 200 /\ resp.total = 10000
    /\ \E o \in Range(order) :
         /\ Str(o._id) = resp.id
         /\ Len(o.items) = 1
         /\ o.items[1].price = 3333 /\ o.items[1].quantity = 3
         /\ o.total = 10000

\* C8: every line of every persisted order has price >= 0 and quantity >= 1.
C8_LinePricesNonNegative ==
    \A o \in Range(order) :
        \A i \in 1..Len(o.items) : o.items[i].price >= 0 /\ o.items[i].quantity >= 1

\* C9: every persisted order has a non-empty items list.
C9_OrdersNonEmpty == \A o \in Range(order) : Len(o.items) >= 1

\* C10: once every concurrent /seed request has returned, the store holds
\* exactly 2 restaurants and 6 menu items.
C10_ConcurrentSeedIdempotent ==
    (\A q \in SeedRequests : seedPc[q] \in {"seeded", "already"}) =>
        (Len(restaurant) = 2 /\ Len(menuitem) = 6)

====
